---- MODULE Spec2Model ----
(***************************************************************************)
(* Model of package exchangesmtp (demen1n/exchange-smtp): the MIME message *)
(* assembler Mail.ToBytes with its helpers ValidateEmail, generateBoundary,*)
(* writeBytes and writeFile (the validating, inline-capable variant).      *)
(*                                                                         *)
(* Go strings that the code inspects or encodes (addresses, subject, body) *)
(* and []byte values are sequences of byte values 0..255; strings that are *)
(* only copied into the output (names, content types, content ids) are     *)
(* TLA+ strings.  The output buffer of a call is the sequence of the       *)
(* strings written to it, one element per write statement of the source;   *)
(* the bytes of the buffer are the concatenation of the elements.          *)
(***************************************************************************)
EXTENDS Integers, Sequences, FiniteSets, TLC

VARIABLES
    mail,             \* call -> the Mail the call was made on (receiver m)
    files,            \* the filesystem: path -> [ok, data]
    pc,               \* call -> position of the call in ToBytes
    msgRef,           \* call -> the buffer the local variable msg points to
    bufs,             \* buffer id -> the sequence of writes made to it
    boundary,         \* call -> local variable boundary (16 bytes) or <<>>
    relatedBoundary,  \* call -> local variable relatedBoundary or <<>>
    idx,              \* call -> number of range-loop iterations started
    randFailed,       \* call -> rand.Read returned an error in this call
    ret,              \* call -> what ToBytes returned
    fileReads,        \* call -> the paths the call passed to os.ReadFile, in order
    arg,              \* argument of the pure function under check
    out,              \* its result
    phase             \* "idle" | "input" | "applied"

vars == <<mail, files, pc, msgRef, bufs, boundary, relatedBoundary, idx,
          randFailed, ret, fileReads, arg, out, phase>>

(***************************************************************************)
(* Bounds of the model.                                                    *)
(***************************************************************************)
MaxTo == 2
MaxAttach == 2
MaxInline == 2
MaxEmailLen == 8
MaxFileLen == 115

(***************************************************************************)
(* Bytes and text.                                                         *)
(***************************************************************************)
Printable ==
  << " ", "!", "\"", "#", "$", "%", "&", "'", "(", ")", "*", "+", ",", "-", ".", "/",
     "0", "1", "2", "3", "4", "5", "6", "7", "8", "9", ":", ";", "<", "=", ">", "?",
     "@", "A", "B", "C", "D", "E", "F", "G", "H", "I", "J", "K", "L", "M", "N", "O",
     "P", "Q", "R", "S", "T", "U", "V", "W", "X", "Y", "Z", "[", "\\", "]", "^", "_",
     "",  "a", "b", "c", "d", "e", "f", "g", "h", "i", "j", "k", "l", "m", "n", "o",
     "p", "q", "r", "s", "t", "u", "v", "w", "x", "y", "z", "{", "|", "}", "~" >>

\* The one-character string of a byte the program can emit (the backquote,
\* byte 96, has no string form here and is in no text of the model).
Chr(b) ==
    CASE b = 9  -> "\t"
      [] b = 10 -> "\n"
      [] b = 13 -> "\r"
      [] b >= 32 /\ b <= 126 /\ b # 96 -> Printable[b - 31]

\* The text a sequence of writes leaves in a buffer: elements lo..hi joined.
RECURSIVE ConcatRange(_, _, _)
ConcatRange(ws, lo, hi) ==
    IF lo > hi THEN ""
    ELSE IF lo = hi THEN ws[lo]
    ELSE LET mid == (lo + hi) \div 2
         IN  ConcatRange(ws, lo, mid) \o ConcatRange(ws, mid + 1, hi)

Concat(ws) == ConcatRange(ws, 1, Len(ws))

\* A Go string (bytes) as the text it is written as.
Str(bytes) == Concat([i \in 1..Len(bytes) |-> Chr(bytes[i])])

IsLetter(b) == (b >= 97 /\ b <= 122) \/ (b >= 65 /\ b <= 90)
IsDigit(b) == b >= 48 /\ b <= 57

HexDigits == <<"0", "1", "2", "3", "4", "5", "6", "7",
               "8", "9", "a", "b", "c", "d", "e", "f">>

UpperHex == <<"0", "1", "2", "3", "4", "5", "6", "7",
              "8", "9", "A", "B", "C", "D", "E", "F">>

\* fmt's %x of one byte: two lowercase hexadecimal digits.
HexByte(b) == HexDigits[(b \div 16) + 1] \o HexDigits[(b % 16) + 1]

RECURSIVE HexFrom(_, _)
HexFrom(bytes, i) ==
    IF i > Len(bytes) THEN "" ELSE HexByte(bytes[i]) \o HexFrom(bytes, i + 1)

\* The =XX escape of quoted-printable and of RFC 2047 Q encoding.
Escape(b) == <<"=", UpperHex[(b \div 16) + 1], UpperHex[(b % 16) + 1]>>

(***************************************************************************)
(* ValidateEmail: emailRegex.MatchString(email) for                        *)
(*   ^[a-zA-Z0-9._%+\-]+@[a-zA-Z0-9.\-]+\.[a-zA-Z]{2,}$                    *)
(* run as Go's regexp runs it: a simulation of the automaton of the        *)
(* pattern over the whole text (^ and $ without the m flag match only at   *)
(* the two ends of the text).  States of the automaton:                    *)
(*   0 start, 1 inside the local part, 2 after '@', 3 inside the domain    *)
(*   class run, 4 after the literal dot, 5 one letter, 6 two letters or    *)
(*   more (accepting).                                                     *)
(***************************************************************************)
LocalClass(b) == IsLetter(b) \/ IsDigit(b) \/ b \in {46, 95, 37, 43, 45}
DomainClass(b) == IsLetter(b) \/ IsDigit(b) \/ b \in {46, 45}

RegexStep(q, b) ==
    CASE q = 0 -> IF LocalClass(b) THEN {1} ELSE {}
      [] q = 1 -> (IF LocalClass(b) THEN {1} ELSE {})
                  \cup (IF b = 64 THEN {2} ELSE {})
      [] q = 2 -> IF DomainClass(b) THEN {3} ELSE {}
      [] q = 3 -> (IF DomainClass(b) THEN {3} ELSE {})
                  \cup (IF b = 46 THEN {4} ELSE {})
      [] q = 4 -> IF IsLetter(b) THEN {5} ELSE {}
      [] q = 5 -> IF IsLetter(b) THEN {6} ELSE {}
      [] q = 6 -> IF IsLetter(b) THEN {6} ELSE {}

RECURSIVE RegexRun(_, _, _)
RegexRun(Q, s, i) ==
    IF i > Len(s) THEN Q
    ELSE RegexRun(UNION {RegexStep(q, s[i]) : q \in Q}, s, i + 1)

\* A mis-written quantifier: {1,} in place of {2,} for the final label.
emailRegexMatchOneLetter(s) == RegexRun({0}, s, 1) \cap {5, 6} # {}

emailRegexMatch(s) == 6 \in RegexRun({0}, s, 1)

ValidateEmail(email) == emailRegexMatch(email)

(***************************************************************************)
(* base64.StdEncoding: RFC 4648 alphabet, '=' padding.                     *)
(***************************************************************************)
EncodedLen(n) == ((n + 2) \div 3) * 4

\* The character of a 6-bit value in the standard alphabet.
B64Char(v) ==
    CASE v < 26 -> Chr(65 + v)
      [] v >= 26 /\ v < 52 -> Chr(97 + (v - 26))
      [] v >= 52 /\ v < 62 -> Chr(48 + (v - 52))
      [] v = 62 -> "+"
      [] v = 63 -> "/"

ByteAt(file, i) == IF i <= Len(file) THEN file[i] ELSE 0

\* Character k (1-based) of the encoding of file.
StdEncodeAt(file, k) ==
    LET g == (k - 1) \div 4
        pos == (k - 1) % 4
        val == ByteAt(file, 3 * g + 1) * 65536 + ByteAt(file, 3 * g + 2) * 256
               + ByteAt(file, 3 * g + 3)
        sextet == CASE pos = 0 -> val \div 262144
                    [] pos = 1 -> (val \div 4096) % 64
                    [] pos = 2 -> (val \div 64) % 64
                    [] pos = 3 -> val % 64
    IN  IF (pos = 2 /\ 3 * g + 2 > Len(file)) \/ (pos = 3 /\ 3 * g + 3 > Len(file))
        THEN "="
        ELSE B64Char(sextet)

StdEncode(file) == [k \in 1..EncodedLen(Len(file)) |-> StdEncodeAt(file, k)]

(***************************************************************************)
(* Mail.writeBytes: the writes it makes to msg, in order.  Each element is *)
(* one WriteByte (a character of the payload) or one WriteString("\r\n").  *)
(* It always returns a nil error.                                          *)
(***************************************************************************)
WrapAt == 76

\* A wrap test on the index before the write instead of after it.
WrapsAfterOffByOne(index) == index % WrapAt = 0

\* The test of the loop body: a CRLF follows payload[index].
WrapsAfter(index) == (index + 1) % WrapAt = 0

\* The writes of one iteration of the loop.
LoopBody(payload, index) ==
    <<payload[index + 1]>> \o (IF WrapsAfter(index) THEN <<"\r\n">> ELSE <<>>)

\* The writes of the iterations index = lo .. hi - 1, in order.
RECURSIVE writeBytesLoop(_, _, _)
writeBytesLoop(payload, lo, hi) ==
    IF lo >= hi THEN <<>>
    ELSE IF lo + 1 = hi THEN LoopBody(payload, lo)
    ELSE LET mid == (lo + hi) \div 2
         IN  writeBytesLoop(payload, lo, mid) \o writeBytesLoop(payload, mid, hi)

writeBytes(file) ==
    LET payload == StdEncode(file)
    IN  <<"\r\n">> \o writeBytesLoop(payload, 0, Len(payload))

(***************************************************************************)
(* mime/quotedprintable.Writer with Binary = false, writing to a           *)
(* bytes.Buffer (whose Write never returns an error): Write of the whole   *)
(* body followed by Close.  The writer state is the output so far, the     *)
(* pending line and the cr flag.                                           *)
(***************************************************************************)
IsWhitespace(b) == b = 32 \/ b = 9

QPFlush(w) == [w EXCEPT !.out = w.out \o Concat(w.line), !.line = <<>>]

QPInsertCRLF(w) == QPFlush([w EXCEPT !.line = w.line \o <<"\r", "\n">>])

QPInsertSoftLineBreak(w) == QPInsertCRLF([w EXCEPT !.line = Append(w.line, "=")])

QPEncodeByte(w, b) ==
    LET w1 == IF 76 - 1 - Len(w.line) < 3 THEN QPInsertSoftLineBreak(w) ELSE w
    IN  [w1 EXCEPT !.line = w1.line \o Escape(b)]

\* The last byte of the pending line is re-encoded when it is a space or tab.
QPCheckLastByte(w) ==
    IF Len(w.line) = 0 THEN w
    ELSE LET c == w.line[Len(w.line)]
         IN  IF c = " " \/ c = "\t"
             THEN QPEncodeByte([w EXCEPT !.line = SubSeq(w.line, 1, Len(w.line) - 1)],
                               IF c = " " THEN 32 ELSE 9)
             ELSE w

\* One byte through Writer.write (the unescaped path).
QPWritePlain(w, b) ==
    IF b = 10 \/ b = 13
    THEN IF w.cr /\ b = 10
         THEN [w EXCEPT !.cr = FALSE]
         ELSE QPInsertCRLF(QPCheckLastByte([w EXCEPT !.cr = (b = 13) \/ w.cr]))
    ELSE LET w1 == IF Len(w.line) = 76 - 1 THEN QPInsertSoftLineBreak(w) ELSE w
         IN  [w1 EXCEPT !.line = Append(w1.line, Chr(b)), !.cr = FALSE]

QPWriteOne(w, b) ==
    IF (b >= 33 /\ b <= 126 /\ b # 61) \/ IsWhitespace(b) \/ b = 10 \/ b = 13
    THEN QPWritePlain(w, b)
    ELSE QPEncodeByte(w, b)

RECURSIVE QPWriteFrom(_, _, _)
QPWriteFrom(w, p, i) ==
    IF i > Len(p) THEN w ELSE QPWriteFrom(QPWriteOne(w, p[i]), p, i + 1)

\* qp.Write([]byte(body)); qp.Close(): the text added to the buffer.
QuotedPrintable(body) ==
    QPFlush(QPCheckLastByte(
        QPWriteFrom([out |-> "", line |-> <<>>, cr |-> FALSE], body, 1))).out

(***************************************************************************)
(* mime.QEncoding.Encode("utf-8", s): s itself when every byte is          *)
(* printable ASCII or a tab, else RFC 2047 encoded-words of at most 75     *)
(* characters joined by one space, never splitting a UTF-8 rune.           *)
(***************************************************************************)
NeedsEncoding(s) == \E i \in 1..Len(s) : (s[i] < 32 \/ s[i] > 126) /\ s[i] # 9

QPlain(b) == b >= 32 /\ b <= 126 /\ b # 61 /\ b # 63 /\ b # 95

\* s[i] is a byte of the string within lo..hi.
ByteIn(s, i, lo, hi) == i <= Len(s) /\ s[i] >= lo /\ s[i] <= hi

\* The size utf8.DecodeRuneInString(s[i:]) returns: the length of the
\* well-formed UTF-8 sequence that starts at i, and 1 when the bytes at i
\* are not one (a lead byte without its continuation bytes, a sequence cut
\* by the end of the string, an overlong form, a surrogate, a value above
\* U+10FFFF).
RuneLen(s, i) ==
    LET b == s[i]
        cont(k) == ByteIn(s, i + k, 128, 191)
        second(lo, hi) == ByteIn(s, i + 1, lo, hi)
    IN  CASE b >= 194 /\ b <= 223 -> IF cont(1) THEN 2 ELSE 1
          [] b = 224 -> IF second(160, 191) /\ cont(2) THEN 3 ELSE 1
          [] (b >= 225 /\ b <= 236) \/ b = 238 \/ b = 239 ->
                 IF cont(1) /\ cont(2) THEN 3 ELSE 1
          [] b = 237 -> IF second(128, 159) /\ cont(2) THEN 3 ELSE 1
          [] b = 240 -> IF second(144, 191) /\ cont(2) /\ cont(3) THEN 4 ELSE 1
          [] b >= 241 /\ b <= 243 -> IF cont(1) /\ cont(2) /\ cont(3) THEN 4 ELSE 1
          [] b = 244 -> IF second(128, 143) /\ cont(2) /\ cont(3) THEN 4 ELSE 1
          [] OTHER -> 1

QChar(b) == IF b = 32 THEN "_" ELSE IF QPlain(b) THEN Chr(b) ELSE Concat(Escape(b))

RECURSIVE QString(_, _, _)
QString(s, i, n) ==
    IF n = 0 \/ i > Len(s) THEN "" ELSE QChar(s[i]) \o QString(s, i + 1, n - 1)

RECURSIVE QEncodeFrom(_, _, _)
QEncodeFrom(s, i, currentLen) ==
    IF i > Len(s) THEN ""
    ELSE LET runeLen == IF QPlain(s[i]) THEN 1 ELSE RuneLen(s, i)
             encLen == IF QPlain(s[i]) THEN 1 ELSE 3 * runeLen
             split == currentLen + encLen > 75 - 10 - 2
         IN  (IF split THEN "?= =?utf-8?q?" ELSE "")
             \o QString(s, i, runeLen)
             \o QEncodeFrom(s, i + runeLen, (IF split THEN 0 ELSE currentLen) + encLen)

QEncode(s) ==
    IF ~NeedsEncoding(s) THEN Str(s)
    ELSE "=?utf-8?q?" \o QEncodeFrom(s, 1, 0) \o "?="

(***************************************************************************)
(* The filesystem and the random source, the two collaborators of ToBytes. *)
(***************************************************************************)
NoErr == "<nil>"

\* os.ReadFile(fileName) on filesystem fs.
ReadFile(fs, fileName) ==
    IF fileName \in DOMAIN fs
    THEN [data |-> fs[fileName], err |-> NoErr]
    ELSE [data |-> <<>>, err |-> "open " \o fileName \o ": no such file or directory"]

BoundaryBytes == 16

\* var buf [16]byte: the zero value the array has before rand.Read fills it.
ZeroBuf == [i \in 1..BoundaryBytes |-> 0]

\* Values the secure random source delivers.
RandBufs == {[i \in 1..BoundaryBytes |-> 171],
             [i \in 1..BoundaryBytes |-> (i * 17) % 256]}

\* rand.Read(buf[:]) in a call whose earlier boundary is prev.  A read that
\* succeeds fills buf with a value of the source; two 128-bit values drawn
\* in one call are taken to differ.  A read that fails leaves buf as it was
\* and either returns an error (Go before 1.24) or ends the process (Go 1.24
\* and later); the build decides which.
RandRead(prev) ==
    {[buf |-> r, failed |-> FALSE, fatal |-> FALSE] :
        r \in {x \in RandBufs : "boundary-" \o HexFrom(x, 1) # prev}}
    \cup {[buf |-> ZeroBuf, failed |-> TRUE, fatal |-> FALSE],
          [buf |-> ZeroBuf, failed |-> TRUE, fatal |-> TRUE]}

\* generateBoundary, given what rand.Read left in buf: the error of rand.Read
\* is not looked at.
generateBoundary(buf) == "boundary-" \o HexFrom(buf, 1)

(***************************************************************************)
(* The strings ToBytes writes.                                             *)
(***************************************************************************)
mailTypeNames == <<"text/plain", "text/html">>

\* MailType.String(): PlainText = 0, HTML = 1.
MailTypeString(mt) == mailTypeNames[mt + 1]

RECURSIVE JoinFrom(_, _, _)
JoinFrom(elems, sep, i) ==
    IF i > Len(elems) THEN ""
    ELSE (IF i > 1 THEN sep ELSE "") \o Str(elems[i]) \o JoinFrom(elems, sep, i + 1)

\* A join that drops the space of the separator.
JoinToNoSpace(to) == JoinFrom(to, ",", 1)

\* strings.Join(m.To, ", ")
JoinTo(to) == JoinFrom(to, ", ", 1)

FromHeader(m) == "From: " \o Str(m.From) \o "\r\n"
ToHeader(m) == "To: " \o JoinTo(m.To) \o "\r\n"
SubjectHeader(m) == "Subject: " \o QEncode(m.Subject) \o "\r\n"
MimeVersionHeader == "MIME-Version: 1.0\r\n"

\* The four writes of "write headers".
Headers(m) == <<FromHeader(m), ToHeader(m), SubjectHeader(m), MimeVersionHeader>>

MixedDecl(b) == "Content-Type: multipart/mixed; boundary=" \o b \o "\r\n\r\n"
RelatedDecl(b) == "Content-Type: multipart/related; boundary=" \o b \o "\r\n\r\n"
FirstDelim(b) == "--" \o b \o "\r\n"
PartDelim(b) == "\r\n--" \o b \o "\r\n"
CloseDelim(b) == "\r\n--" \o b \o "--\r\n"

BodyContentType(m) ==
    "Content-Type: " \o MailTypeString(m.MT) \o "; charset=UTF-8\r\n"
BodyEncodingHeader == "Content-Transfer-Encoding: quoted-printable\r\n\r\n"

\* The body part: its two header writes and the quoted-printable text.
BodyPart(m) == <<BodyContentType(m), BodyEncodingHeader, QuotedPrintable(m.Body)>>

DefaultContentType(ct) == IF ct = "" THEN "application/octet-stream" ELSE ct

PartContentType(file) ==
    "Content-Type: " \o DefaultContentType(file.ContentType)
        \o "; name=\"" \o file.Name \o "\"\r\n"
Base64EncodingHeader == "Content-Transfer-Encoding: base64\r\n"
ContentIDHeader(file) == "Content-ID: <" \o file.CID \o ">\r\n"
InlineDisposition(file) ==
    "Content-Disposition: inline; filename=\"" \o file.Name \o "\"\r\n"
AttachmentDisposition(file) ==
    "Content-Disposition: attachment; filename=\"" \o file.Name \o "\"\r\n"

\* One iteration of the inline loop: always encoded from file.Body.
InlinePartWrites(rb, file) ==
    <<PartDelim(rb), PartContentType(file), Base64EncodingHeader,
      ContentIDHeader(file), InlineDisposition(file), Concat(writeBytes(file.Body))>>

\* The header writes of one iteration of the attachment loop.
AttachmentHeaderWrites(b, file) ==
    <<PartDelim(b), PartContentType(file), Base64EncodingHeader,
      AttachmentDisposition(file)>>

\* An attachment whose content is always taken from the file at Name, a
\* failed read falling back to Body.
AttachmentContentFileFirst(fs, file) ==
    LET r == ReadFile(fs, file.Name)
    IN  [err |-> NoErr,
         writes |-> <<Concat(writeBytes(IF r.err = NoErr THEN r.data ELSE file.Body))>>,
         reads |-> <<file.Name>>]

\* The content of an attachment: its Body when non-empty, else the file at
\* Name (writeFile); err is the error of the read, reads the paths passed
\* to os.ReadFile.
AttachmentContent(fs, file) ==
    IF Len(file.Body) > 0
    THEN [err |-> NoErr, writes |-> <<Concat(writeBytes(file.Body))>>, reads |-> <<>>]
    ELSE LET r == ReadFile(fs, file.Name)
         IN  IF r.err # NoErr
             THEN [err |-> r.err, writes |-> <<>>, reads |-> <<file.Name>>]
             ELSE [err |-> NoErr, writes |-> <<Concat(writeBytes(r.data))>>,
                   reads |-> <<file.Name>>]

hasAttachments(m) == Len(m.Attachment) > 0
hasInline(m) == Len(m.Inline) > 0

\* A wrapper emitted for every message.
WrappedAlways(m) == TRUE

\* The test guarding the multipart/mixed declaration and its terminator.
Wrapped(m) == hasAttachments(m) \/ hasInline(m)

(***************************************************************************)
(* The preconditions of ToBytes, in the order of the source: the error of  *)
(* the first check that fails, or NoErr.                                   *)
(***************************************************************************)
RECURSIVE FirstInvalidTo(_, _)
FirstInvalidTo(to, i) ==
    IF i > Len(to) THEN NoErr
    ELSE IF ~ValidateEmail(to[i])
         THEN "invalid To email address: " \o Str(to[i])
         ELSE FirstInvalidTo(to, i + 1)

\* The body check made before the recipient check.
PreconditionsBodyFirst(m) ==
    IF Len(m.Body) = 0 THEN "email body is empty"
    ELSE IF Len(m.To) = 0 THEN "recipient list is empty"
    ELSE IF ~ValidateEmail(m.From)
         THEN "invalid From email address: " \o Str(m.From)
    ELSE FirstInvalidTo(m.To, 1)

Preconditions(m) ==
    IF Len(m.To) = 0 THEN "recipient list is empty"
    ELSE IF Len(m.Body) = 0 THEN "email body is empty"
    ELSE IF ~ValidateEmail(m.From)
         THEN "invalid From email address: " \o Str(m.From)
    ELSE FirstInvalidTo(m.To, 1)

\* A failure that hands back what was written so far.
FailReturnPartial(written, err) == [nilbuf |-> FALSE, buf |-> written, err |-> err]

\* return nil, err
FailReturn(written, err) == [nilbuf |-> TRUE, buf |-> <<>>, err |-> err]

\* return msg.Bytes(), nil
OkReturn(written) == [nilbuf |-> FALSE, buf |-> written, err |-> NoErr]

NotReturned == [nilbuf |-> TRUE, buf |-> <<>>, err |-> "(running)"]

(***************************************************************************)
(* Inputs.                                                                 *)
(***************************************************************************)
AddrA == <<97, 64, 98, 46, 99, 111>>          \* a@b.co
AddrB == <<99, 64, 100, 46, 111, 114, 103>>   \* c@d.org
AddrBad1 == <<98, 97, 100>>                   \* bad
AddrBad2 == <<120, 64, 121>>                  \* x@y

TextHi == <<72, 105>>                         \* Hi
\* "Sujet " followed by eleven e-acute (UTF-8 c3 a9): needs encoding, and
\* is long enough to be split into two encoded-words, which mime separates
\* by one space.
TextLongSubject ==
    <<83, 117, 106, 101, 116, 32>> \o [i \in 1..22 |-> IF i % 2 = 1 THEN 195 ELSE 169]
\* "caf" e-acute " " followed by eight times e-acute "t" e-acute " " in
\* Latin-1 (e9): not well-formed UTF-8, and long enough to be split.
TextLatin1Subject ==
    <<99, 97, 102, 233, 32>>
    \o [i \in 1..32 |-> CASE i % 4 = 1 -> 233 [] i % 4 = 2 -> 116
                           [] i % 4 = 3 -> 233 [] OTHER -> 32]
TextHello == <<104, 101, 108, 108, 111>>      \* hello
\* "<b>=" e-acute " </b>" LF: an '=', a non-ASCII rune, a line break.
TextHtmlBody == <<60, 98, 62, 61, 195, 169, 32, 60, 47, 98, 62, 10>>

\* Sequences over S of length at most n in which no element occurs twice.
DistinctSeqs(S, n) ==
    UNION {{q \in [1..k -> S] : \A i, j \in 1..k : i # j => q[i] # q[j]} : k \in 0..n}

ToLists == DistinctSeqs({AddrA, AddrB, AddrBad1, AddrBad2}, MaxTo)

AttachmentPool ==
    {[Name |-> "a.txt", ContentType |-> "text/plain", Body |-> <<104, 101, 121>>],
     [Name |-> "a.txt", ContentType |-> "", Body |-> <<>>],
     [Name |-> "nofile", ContentType |-> "", Body |-> <<>>]}

InlinePool ==
    {[CID |-> "logo", Name |-> "l.png", ContentType |-> "image/png",
      Body |-> <<137, 80, 78, 71>>],
     [CID |-> "x", Name |-> "a.txt", ContentType |-> "", Body |-> <<>>],
     [CID |-> "dot", Name |-> "p.gif", ContentType |-> "image/gif",
      Body |-> <<71, 73, 70>>]}

AttachmentLists == DistinctSeqs(AttachmentPool, MaxAttach)
InlineLists == DistinctSeqs(InlinePool, MaxInline)

Heads ==
    {[MT |-> 0, From |-> AddrA, Subject |-> TextHi, Body |-> TextHello],
     [MT |-> 1, From |-> AddrA, Subject |-> TextLongSubject, Body |-> TextHtmlBody],
     [MT |-> 0, From |-> AddrA, Subject |-> TextLatin1Subject, Body |-> TextHello],
     [MT |-> 0, From |-> AddrA, Subject |-> TextHi, Body |-> <<>>],
     [MT |-> 0, From |-> AddrBad2, Subject |-> TextHi, Body |-> TextHello],
     [MT |-> 1, From |-> AddrBad2, Subject |-> TextHi, Body |-> <<>>]}

MakeMail(h, to, att, inl) ==
    [MT |-> h.MT, From |-> h.From, To |-> to, Subject |-> h.Subject,
     Body |-> h.Body, Attachment |-> att, Inline |-> inl]

Mails ==
    {MakeMail(h, to, att, inl) :
        h \in Heads, to \in ToLists, att \in AttachmentLists, inl \in InlineLists}

\* a.txt holds 58 bytes (80 base64 characters: more than one line), or is
\* an empty file; no other path exists.
FileSystems ==
    {[n \in {"a.txt"} |-> [i \in 1..58 |-> (i * 37) % 256]],
     [n \in {"a.txt"} |-> <<>>]}

(***************************************************************************)
(* Mail.ToBytes as a state machine, one action per block of the source.    *)
(* Positions: start, headers, outer, related, body, inline, attach, read,  *)
(* done; read is the call suspended in os.ReadFile, the headers of the     *)
(* attachment written and its content not; crashed when the process was    *)
(* ended inside rand.Read.                                                 *)
(***************************************************************************)
InitCalls(C, M) ==
    /\ mail \in [C -> M]
    /\ files \in FileSystems
    /\ pc = [c \in C |-> "start"]
    /\ msgRef = [c \in C |-> 0]
    /\ bufs = [b \in C |-> <<>>]
    /\ boundary = [c \in C |-> ""]
    /\ relatedBoundary = [c \in C |-> ""]
    /\ idx = [c \in C |-> 0]
    /\ randFailed = [c \in C |-> FALSE]
    /\ ret = [c \in C |-> NotReturned]
    /\ fileReads = [c \in C |-> <<>>]
    /\ arg = <<>>
    /\ out = <<>>
    /\ phase = "idle"

Init == InitCalls({1}, Mails)

Calls == DOMAIN pc

\* A process ended by the runtime runs no further statement of any call.
Alive == \A d \in Calls : pc[d] # "crashed"

\* One buffer for every call.
SharedBuffer(c) == 1

\* msg := bytes.NewBuffer(nil): a buffer of the call's own.
NewBuffer(c) == c

\* msg.WriteString / WriteByte: ws appended to the buffer msg points to.
Written(c, ws) == [bufs EXCEPT ![msgRef[c]] = @ \o ws]

\* The element of a range loop's i-th iteration, taken from the end.
RangeAtReversed(list, i) == list[Len(list) + 1 - i]

\* The element of a range loop's i-th iteration.
RangeAt(list, i) == list[i]

PureUnchanged == UNCHANGED <<arg, out, phase>>

\* Lines 72-92: the buffer is made, the preconditions are checked.
Begin(c) ==
    /\ pc[c] = "start"
    /\ Alive
    /\ LET b == NewBuffer(c)
           err == Preconditions(mail[c])
       IN  /\ msgRef' = [msgRef EXCEPT ![c] = b]
           /\ bufs' = [bufs EXCEPT ![b] = <<>>]
           /\ IF err # NoErr
              THEN /\ ret' = [ret EXCEPT ![c] = FailReturn(<<>>, err)]
                   /\ pc' = [pc EXCEPT ![c] = "done"]
              ELSE /\ ret' = ret
                   /\ pc' = [pc EXCEPT ![c] = "headers"]
    /\ UNCHANGED <<mail, files, boundary, relatedBoundary, idx, randFailed, fileReads>>
    /\ PureUnchanged

\* Lines 94-99.
WriteHeaders(c) ==
    /\ pc[c] = "headers"
    /\ Alive
    /\ bufs' = Written(c, Headers(mail[c]))
    /\ pc' = [pc EXCEPT ![c] = "outer"]
    /\ UNCHANGED <<mail, files, msgRef, boundary, relatedBoundary, idx, randFailed, ret, fileReads>>
    /\ PureUnchanged

\* Lines 101-108: the outer boundary, and the multipart/mixed opening.
OuterBoundary(c) ==
    /\ pc[c] = "outer"
    /\ Alive
    /\ \E r \in RandRead("") :
        /\ randFailed' = [randFailed EXCEPT ![c] = @ \/ r.failed]
        /\ IF r.fatal
           THEN /\ pc' = [pc EXCEPT ![c] = "crashed"]
                /\ UNCHANGED <<bufs, boundary>>
           ELSE LET b == generateBoundary(r.buf)
                IN  /\ boundary' = [boundary EXCEPT ![c] = b]
                    /\ bufs' = Written(c, IF Wrapped(mail[c])
                                          THEN <<MixedDecl(b), FirstDelim(b)>>
                                          ELSE <<>>)
                    /\ pc' = [pc EXCEPT ![c] =
                                IF hasInline(mail[c]) THEN "related" ELSE "body"]
    /\ UNCHANGED <<mail, files, msgRef, relatedBoundary, idx, ret, fileReads>>
    /\ PureUnchanged

\* Lines 111-114: the second boundary, and the multipart/related opening.
RelatedBoundary(c) ==
    /\ pc[c] = "related"
    /\ Alive
    /\ \E r \in RandRead(boundary[c]) :
        /\ randFailed' = [randFailed EXCEPT ![c] = @ \/ r.failed]
        /\ IF r.fatal
           THEN /\ pc' = [pc EXCEPT ![c] = "crashed"]
                /\ UNCHANGED <<bufs, relatedBoundary>>
           ELSE LET rb == generateBoundary(r.buf)
                IN  /\ relatedBoundary' = [relatedBoundary EXCEPT ![c] = rb]
                    /\ bufs' = Written(c, <<RelatedDecl(rb), FirstDelim(rb)>>)
                    /\ pc' = [pc EXCEPT ![c] = "body"]
    /\ UNCHANGED <<mail, files, msgRef, boundary, idx, ret, fileReads>>
    /\ PureUnchanged

\* Lines 116-128 and 150-162: the body part.  The quoted-printable writer
\* writes to a bytes.Buffer, whose Write returns no error, so the two error
\* returns of each branch are never taken.
WriteBody(c) ==
    /\ pc[c] = "body"
    /\ Alive
    /\ bufs' = Written(c, BodyPart(mail[c]))
    /\ pc' = [pc EXCEPT ![c] = IF hasInline(mail[c]) THEN "inline" ELSE "attach"]
    /\ idx' = [idx EXCEPT ![c] = 0]
    /\ UNCHANGED <<mail, files, msgRef, boundary, relatedBoundary, randFailed, ret, fileReads>>
    /\ PureUnchanged

\* Lines 131-147: one iteration of the inline loop.
InlinePart(c) ==
    /\ pc[c] = "inline"
    /\ Alive
    /\ idx[c] < Len(mail[c].Inline)
    /\ idx' = [idx EXCEPT ![c] = @ + 1]
    /\ bufs' = Written(c, InlinePartWrites(relatedBoundary[c],
                                           RangeAt(mail[c].Inline, idx[c] + 1)))
    /\ UNCHANGED <<mail, files, pc, msgRef, boundary, relatedBoundary, randFailed, ret, fileReads>>
    /\ PureUnchanged

\* Line 148: the inline loop is over.
CloseRelated(c) ==
    /\ pc[c] = "inline"
    /\ Alive
    /\ idx[c] = Len(mail[c].Inline)
    /\ bufs' = Written(c, <<CloseDelim(relatedBoundary[c])>>)
    /\ pc' = [pc EXCEPT ![c] = "attach"]
    /\ idx' = [idx EXCEPT ![c] = 0]
    /\ UNCHANGED <<mail, files, msgRef, boundary, relatedBoundary, randFailed, ret, fileReads>>
    /\ PureUnchanged

\* Lines 167-181: one iteration of the attachment loop up to the content.
\* The part's headers are written; a non-empty Body is then encoded by
\* writeBytes, and with an empty Body the call goes on to writeFile.
AttachmentPart(c) ==
    /\ pc[c] = "attach"
    /\ Alive
    /\ idx[c] < Len(mail[c].Attachment)
    /\ LET file == RangeAt(mail[c].Attachment, idx[c] + 1)
           hdr == AttachmentHeaderWrites(boundary[c], file)
       IN  /\ idx' = [idx EXCEPT ![c] = @ + 1]
           /\ IF Len(file.Body) > 0
              THEN LET content == AttachmentContent(files, file)
                   IN  /\ bufs' = Written(c, hdr \o content.writes)
                       /\ fileReads' = [fileReads EXCEPT ![c] = @ \o content.reads]
                       /\ pc' = pc
              ELSE /\ bufs' = Written(c, hdr)
                   /\ fileReads' = fileReads
                   /\ pc' = [pc EXCEPT ![c] = "read"]
    /\ UNCHANGED <<mail, files, msgRef, boundary, relatedBoundary, randFailed, ret>>
    /\ PureUnchanged

\* Lines 182-186 and 211-222: writeFile.  os.ReadFile returns; its error
\* ends the call, its data is encoded by writeBytes.
ReadAttachment(c) ==
    /\ pc[c] = "read"
    /\ Alive
    /\ LET file == RangeAt(mail[c].Attachment, idx[c])
           content == AttachmentContent(files, file)
           after == Written(c, content.writes)
       IN  /\ bufs' = after
           /\ fileReads' = [fileReads EXCEPT ![c] = @ \o content.reads]
           /\ IF content.err # NoErr
              THEN /\ ret' = [ret EXCEPT ![c] = FailReturn(after[msgRef[c]], content.err)]
                   /\ pc' = [pc EXCEPT ![c] = "done"]
              ELSE /\ ret' = ret
                   /\ pc' = [pc EXCEPT ![c] = "attach"]
    /\ UNCHANGED <<mail, files, msgRef, boundary, relatedBoundary, idx, randFailed>>
    /\ PureUnchanged

\* Lines 190-194: the attachment loop is over (or there was none).
Finish(c) ==
    /\ pc[c] = "attach"
    /\ Alive
    /\ idx[c] = Len(mail[c].Attachment)
    /\ LET after == Written(c, IF Wrapped(mail[c])
                               THEN <<CloseDelim(boundary[c])>>
                               ELSE <<>>)
       IN  /\ bufs' = after
           /\ ret' = [ret EXCEPT ![c] = OkReturn(after[msgRef[c]])]
    /\ pc' = [pc EXCEPT ![c] = "done"]
    /\ UNCHANGED <<mail, files, msgRef, boundary, relatedBoundary, idx, randFailed, fileReads>>
    /\ PureUnchanged

Next ==
    \/ \E c \in Calls : Begin(c)
    \/ \E c \in Calls : WriteHeaders(c)
    \/ \E c \in Calls : OuterBoundary(c)
    \/ \E c \in Calls : RelatedBoundary(c)
    \/ \E c \in Calls : WriteBody(c)
    \/ \E c \in Calls : InlinePart(c)
    \/ \E c \in Calls : CloseRelated(c)
    \/ \E c \in Calls : AttachmentPart(c)
    \/ \E c \in Calls : ReadAttachment(c)
    \/ \E c \in Calls : Finish(c)

Spec == Init /\ [][Next]_vars

(***************************************************************************)
(* Two calls of ToBytes, on two Mail values, run by two goroutines.        *)
(***************************************************************************)
ConcMails ==
    {MakeMail([MT |-> 0, From |-> AddrA, Subject |-> TextHi, Body |-> TextHello],
              <<AddrA>>,
              <<[Name |-> "a.txt", ContentType |-> "text/plain", Body |-> <<104, 101, 121>>]>>,
              <<>>),
     MakeMail([MT |-> 1, From |-> AddrA, Subject |-> TextLongSubject, Body |-> TextHtmlBody],
              <<AddrA, AddrB>>,
              <<[Name |-> "a.txt", ContentType |-> "", Body |-> <<>>],
                [Name |-> "nofile", ContentType |-> "", Body |-> <<>>]>>,
              <<[CID |-> "logo", Name |-> "l.png", ContentType |-> "image/png",
                 Body |-> <<137, 80, 78, 71>>]>>),
     MakeMail([MT |-> 0, From |-> AddrA, Subject |-> TextHi, Body |-> TextHello],
              <<>>, <<>>, <<>>),
     MakeMail([MT |-> 1, From |-> AddrA, Subject |-> TextHi, Body |-> TextHtmlBody],
              <<AddrB>>,
              <<>>,
              <<[CID |-> "logo", Name |-> "l.png", ContentType |-> "image/png",
                 Body |-> <<137, 80, 78, 71>>],
                [CID |-> "x", Name |-> "a.txt", ContentType |-> "", Body |-> <<>>]>>)}

InitConc == InitCalls({1, 2}, ConcMails)

SpecConc == InitConc /\ [][Next]_vars

(***************************************************************************)
(* The two pure functions, each applied to one input.                      *)
(***************************************************************************)
InitPure(inputs) ==
    /\ mail = <<>>
    /\ files = <<>>
    /\ pc = <<>>
    /\ msgRef = <<>>
    /\ bufs = <<>>
    /\ boundary = <<>>
    /\ relatedBoundary = <<>>
    /\ idx = <<>>
    /\ randFailed = <<>>
    /\ ret = <<>>
    /\ fileReads = <<>>
    /\ arg \in inputs
    /\ out = <<>>
    /\ phase = "input"

CallsUnchanged ==
    UNCHANGED <<mail, files, pc, msgRef, bufs, boundary, relatedBoundary, idx,
                randFailed, ret, fileReads>>

\* Byte sequences of every length up to MaxFileLen, of two contents each.
FileInputs ==
    {[i \in 1..n |-> (seed + i * 37) % 256] : n \in 0..MaxFileLen, seed \in {0, 255}}

InitB64 == InitPure(FileInputs)

\* m.writeBytes(msg, file) on an empty buffer: out is what msg then holds.
ApplyWriteBytes ==
    /\ phase = "input"
    /\ out' = writeBytes(arg)
    /\ phase' = "applied"
    /\ arg' = arg
    /\ CallsUnchanged

NextB64 == ApplyWriteBytes

SpecB64 == InitB64 /\ [][NextB64]_vars

\* One byte of each kind the pattern tells apart: a letter, a digit (in the
\* classes of the local part and of the domain, as '-' is, and not in the
\* class of the final label), '.', '+' (in the class of the local part
\* only), '@', and two bytes of no class, a space and a line feed.
EmailAlphabet == {97, 49, 46, 43, 64, 32, 10}

\* The strings over the alphabet of length at most n.
EmailStrings(n) == UNION {[1..k -> EmailAlphabet] : k \in 0..n}

\* Every string over the alphabet of length at most MaxEmailLen, each taken
\* once, as a first half followed by what exceeds it.
EmailHalf == MaxEmailLen \div 2

InitEmail ==
    \E p \in EmailStrings(EmailHalf) :
        \E q \in EmailStrings(MaxEmailLen - EmailHalf) :
            /\ q # <<>> => Len(p) = EmailHalf
            /\ InitPure({p \o q})

ApplyValidateEmail ==
    /\ phase = "input"
    /\ out' = ValidateEmail(arg)
    /\ phase' = "applied"
    /\ arg' = arg
    /\ CallsUnchanged

NextEmail == ApplyValidateEmail

SpecEmail == InitEmail /\ [][NextEmail]_vars

(***************************************************************************)
(* Properties.                                                             *)
(***************************************************************************)
Returned(c) == pc[c] = "done"
Succeeded(c) == Returned(c) /\ ret[c].err = NoErr

\* Every boundary string a call can hold.
Boundaries == {generateBoundary(x) : x \in RandBufs \cup {ZeroBuf}}

\* The number of positions of seq that hold x.
Count(seq, x) == Cardinality({i \in 1..Len(seq) : seq[i] = x})

\* Position of the first address of to that fails validation (0: none).
FirstBad(to) ==
    IF \E i \in 1..Len(to) : ~ValidateEmail(to[i])
    THEN CHOOSE i \in 1..Len(to) :
            /\ ~ValidateEmail(to[i])
            /\ \A j \in 1..(i - 1) : ValidateEmail(to[j])
    ELSE 0

\* C1: a call that has returned reports the error of the first failing
\* precondition in the order To non-empty, Body non-empty, From valid, every
\* To address valid in caller order; an invalid-address error names the
\* first failing address; a call that went past the checks passed them all.
C1_PreconditionOrder ==
    \A c \in Calls :
        LET m == mail[c]
            e == ret[c].err
            toEmpty == Len(m.To) = 0
            bodyEmpty == Len(m.Body) = 0
            fromBad == ~ValidateEmail(m.From)
            bad == FirstBad(m.To)
        IN  /\ Returned(c) =>
                /\ toEmpty => e = "recipient list is empty"
                /\ ~toEmpty /\ bodyEmpty => e = "email body is empty"
                /\ ~toEmpty /\ ~bodyEmpty /\ fromBad =>
                       e = "invalid From email address: " \o Str(m.From)
                /\ ~toEmpty /\ ~bodyEmpty /\ ~fromBad /\ bad > 0 =>
                       e = "invalid To email address: " \o Str(m.To[bad])
            /\ pc[c] \notin {"start", "done"} =>
                   ~toEmpty /\ ~bodyEmpty /\ ~fromBad /\ bad = 0

\* A call with a valid From and two invalid recipients returned the To error
\* that names the first of the two.
C1_Witness ==
    \E c \in Calls :
        /\ Returned(c)
        /\ mail[c].To = <<AddrBad2, AddrBad1>>
        /\ Len(mail[c].Body) > 0
        /\ ValidateEmail(mail[c].From)
        /\ ret[c].err = "invalid To email address: x@y"

\* C2: a call that returned an error returned a nil buffer, and stopped at
\* the failure: after a failed precondition nothing was written; after the
\* failed read of the k-th attachment the last write is the header block of
\* that attachment, k delimiters of attachment parts were written, and no
\* closing delimiter of the outer container.
C2_NoPartialOutput ==
    \A c \in Calls :
        (Returned(c) /\ ret[c].err # NoErr) =>
            LET m == mail[c]
                w == bufs[msgRef[c]]
                k == idx[c]
            IN  /\ ret[c].nilbuf
                /\ ret[c].buf = <<>>
                /\ \/ w = <<>> /\ Preconditions(m) = ret[c].err
                   \/ /\ k \in 1..Len(m.Attachment)
                      /\ Len(m.Attachment[k].Body) = 0
                      /\ ReadFile(files, m.Attachment[k].Name).err = ret[c].err
                      /\ w[Len(w)] = AttachmentDisposition(m.Attachment[k])
                      /\ Count(w, PartDelim(boundary[c])) = k
                         + (IF relatedBoundary[c] = boundary[c] THEN Len(m.Inline) ELSE 0)
                      /\ Count(w, CloseDelim(boundary[c]))
                         = (IF relatedBoundary[c] = boundary[c] THEN 1 ELSE 0)

\* The read for the second attachment failed after the first was written.
C2_Witness ==
    \E c \in Calls :
        /\ Returned(c)
        /\ ret[c].err = "open nofile: no such file or directory"
        /\ idx[c] = 2
        /\ Len(bufs[msgRef[c]]) > 12

\* The multipart declarations and delimiters of boundary b.
MultipartWrites(b) ==
    {MixedDecl(b), RelatedDecl(b), FirstDelim(b), PartDelim(b), CloseDelim(b)}

\* C3: a successful output of a message with no attachment and no inline
\* resource holds no multipart declaration and no delimiter, and the body's
\* Content-Type header is the write that follows MIME-Version.
C3_NoWrapperWhenPlain ==
    \A c \in Calls :
        (Succeeded(c) /\ Len(mail[c].Attachment) = 0 /\ Len(mail[c].Inline) = 0) =>
            LET o == ret[c].buf
            IN  /\ \A i \in 1..Len(o) : \A b \in Boundaries : o[i] \notin MultipartWrites(b)
                /\ Len(o) = 7
                /\ o[4] = "MIME-Version: 1.0\r\n"
                /\ o[5] \in {"Content-Type: text/plain; charset=UTF-8\r\n",
                             "Content-Type: text/html; charset=UTF-8\r\n"}
                /\ o[5] = BodyContentType(mail[c])

C3_Witness ==
    \E c \in Calls :
        /\ Succeeded(c)
        /\ Len(mail[c].Attachment) = 0
        /\ Len(mail[c].Inline) = 0
        /\ mail[c].MT = 1

\* The boundary tokens that occur in a declaration or delimiter of o.
TokensIn(o) == {b \in Boundaries : \E i \in 1..Len(o) : o[i] \in MultipartWrites(b)}

\* Opening delimiters of boundary b in o: "--b" followed by CRLF.
Openings(o, b) == Count(o, FirstDelim(b)) + Count(o, PartDelim(b))

\* C4: with attachments and inline resources both present, a successful
\* output holds exactly two distinct boundary tokens; the outer one opens
\* 1 + number of attachments parts, the related one 1 + number of inline
\* resources, and each has exactly one closing delimiter.
C4_TwoDistinctBoundaries ==
    \A c \in Calls :
        (Succeeded(c) /\ hasAttachments(mail[c]) /\ hasInline(mail[c])) =>
            LET o == ret[c].buf
            IN  /\ Cardinality(TokensIn(o)) = 2
                /\ boundary[c] # relatedBoundary[c]
                /\ Openings(o, boundary[c]) = 1 + Len(mail[c].Attachment)
                /\ Openings(o, relatedBoundary[c]) = 1 + Len(mail[c].Inline)
                /\ Count(o, CloseDelim(boundary[c])) = 1
                /\ Count(o, CloseDelim(relatedBoundary[c])) = 1

RECURSIVE CommaSpaceList(_, _)
CommaSpaceList(to, n) ==
    IF n = 0 THEN ""
    ELSE IF n = 1 THEN Str(to[1])
    ELSE CommaSpaceList(to, n - 1) \o ", " \o Str(to[n])

\* C5: a successful output begins with the four header lines From, To,
\* Subject, MIME-Version: 1.0 in this order, each ending in CRLF; the To line
\* is the recipients joined with ", " in caller order; the fifth write is the
\* first Content-Type line.
C5_HeaderLines ==
    \A c \in Calls :
        Succeeded(c) =>
            LET o == ret[c].buf
                m == mail[c]
            IN  /\ Len(o) >= 5
                /\ o[1] = "From: " \o Str(m.From) \o "\r\n"
                /\ o[2] = "To: " \o CommaSpaceList(m.To, Len(m.To)) \o "\r\n"
                /\ o[3] = "Subject: " \o QEncode(m.Subject) \o "\r\n"
                /\ m.Subject = TextHi => o[3] = "Subject: Hi\r\n"
                /\ m.Subject = TextLongSubject =>
                       o[3] = "Subject: =?utf-8?q?Sujet_=C3=A9=C3=A9=C3=A9=C3=A9=C3=A9"
                              \o "=C3=A9=C3=A9=C3=A9=C3=A9?= =?utf-8?q?=C3=A9=C3=A9?=\r\n"
                /\ o[4] = "MIME-Version: 1.0\r\n"
                /\ o[5] \in {MixedDecl(boundary[c]), BodyContentType(m)}

C5_Witness ==
    \E c \in Calls :
        /\ Succeeded(c)
        /\ mail[c].To = <<AddrB, AddrA>>
        /\ ret[c].buf[2] = "To: c@d.org, a@b.co\r\n"

\* C7: a call in which the random source failed returns an error and no
\* buffer, and does not continue with a boundary built from unfilled bytes.
C7_RandFailureIsFatal ==
    \A c \in Calls :
        randFailed[c] =>
            /\ Returned(c)
            /\ ret[c].err # NoErr
            /\ ret[c].nilbuf

\* The base64 text of arg wrapped as the claim has it: every line of up to
\* 76 characters, the last one too, is followed by CRLF.
EveryLineTerminated(p) ==
    LET L == Len(p)
        lines == (L + WrapAt - 1) \div WrapAt
    IN  [i \in 1..(L + lines) |->
            IF i % (WrapAt + 1) = 0 \/ i = L + lines
            THEN "\r\n"
            ELSE p[i - (i \div (WrapAt + 1))]]

\* C6 as claimed: after the CRLF that ends the part headers, writeBytes
\* emits the padded base64 of its input with a CRLF after every line of up
\* to 76 characters, the final shorter one included, and nothing else.
C6_FinalLineTerminated ==
    phase = "applied" =>
        /\ out[1] = "\r\n"
        /\ Tail(out) = EveryLineTerminated(StdEncode(arg))

\* The value of a base64 character (64 for the padding character).
B64Value(ch) ==
    IF ch = "=" THEN 64 ELSE CHOOSE v \in 0..63 : B64Char(v) = ch

\* C6 as amended: writeBytes emits one CRLF, then the padded base64 of its
\* input (4 characters for every 3 bytes begun, decoding to the input) with
\* a CRLF inserted after every 76th character and nowhere else: a final line
\* shorter than 76 characters is not followed by a CRLF.
C6_WrapAfterEvery76 ==
    phase = "applied" =>
        LET n == Len(arg)
            L == 4 * ((n + 2) \div 3)
            chars == [k \in 1..L |-> out[1 + k + ((k - 1) \div 76)]]
            v == [k \in 1..L |-> B64Value(chars[k])]
        IN  /\ out[1] = "\r\n"
            /\ Len(out) = 1 + L + (L \div 76)
            /\ \A j \in 1..(L \div 76) : out[1 + 77 * j] = "\r\n"
            /\ \A k \in 1..L : chars[k] # "\r\n"
            /\ \A k \in 1..L : (v[k] = 64) <=>
                   (k > L - (IF n % 3 = 0 THEN 0 ELSE 3 - (n % 3)))
            /\ \A i \in 1..n :
                   LET g == 4 * ((i - 1) \div 3)
                       r == (i - 1) % 3
                   IN  arg[i] =
                         CASE r = 0 -> v[g + 1] * 4 + (v[g + 2] \div 16)
                           [] r = 1 -> (v[g + 2] % 16) * 16 + (v[g + 3] \div 4)
                           [] r = 2 -> (v[g + 3] % 4) * 64 + v[g + 4]
            /\ (L % 76 # 0) => out[Len(out)] # "\r\n"

\* A 58-byte input: one full line, its CRLF, and a final line of 4
\* characters with no CRLF after it.
C6_Witness ==
    /\ phase = "applied"
    /\ Len(arg) = 58
    /\ Len(out) = 82
    /\ out[78] = "\r\n"
    /\ out[82] = "="

ClaimLetter(b) == b \in (65..90) \cup (97..122)
ClaimLabelChar(b) == ClaimLetter(b) \/ b \in 48..57 \/ b = 45
ClaimLocalChar(b) == ClaimLetter(b) \/ b \in 48..57 \/ b \in {46, 95, 37, 43, 45}

\* s[lo..hi] is one or more labels separated by '.', each of one or more
\* letters, digits or '-'.
IsLabels(s, lo, hi) ==
    /\ lo <= hi
    /\ \A i \in lo..hi : ClaimLabelChar(s[i]) \/ s[i] = 46
    /\ s[lo] # 46
    /\ s[hi] # 46
    /\ \A i \in lo..(hi - 1) : ~(s[i] = 46 /\ s[i + 1] = 46)

\* s[lo..hi] is letters only, two or more.
IsFinalLabel(s, lo, hi) ==
    /\ hi - lo + 1 >= 2
    /\ \A i \in lo..hi : ClaimLetter(s[i])

IsLocalPart(s, hi) ==
    /\ hi >= 1
    /\ \A i \in 1..hi : ClaimLocalChar(s[i])

\* The form of the claim: local-part '@' labels '.' final-label.
ClaimedForm(s) ==
    \E at \in 1..Len(s) : \E dot \in (at + 1)..Len(s) :
        /\ s[at] = 64
        /\ s[dot] = 46
        /\ IsLocalPart(s, at - 1)
        /\ IsLabels(s, at + 1, dot - 1)
        /\ IsFinalLabel(s, dot + 1, Len(s))

\* C8 as claimed: ValidateEmail is true exactly for local-part@domain with
\* the domain made of labels of letters, digits and '-' separated by '.',
\* the final label letters-only of length at least 2.
C8_ExactlyLabelledDomains ==
    phase = "applied" => (out <=> ClaimedForm(arg))

\* The form the pattern has: before the last dot of the domain, any one or
\* more of letters, digits, '-' and '.'.
PatternForm(s) ==
    \E at \in 1..Len(s) : \E dot \in (at + 1)..Len(s) :
        /\ s[at] = 64
        /\ s[dot] = 46
        /\ IsLocalPart(s, at - 1)
        /\ dot - 1 >= at + 1
        /\ \A i \in (at + 1)..(dot - 1) : ClaimLabelChar(s[i]) \/ s[i] = 46
        /\ IsFinalLabel(s, dot + 1, Len(s))

\* C8 as amended: ValidateEmail is true exactly for local-part '@' run '.'
\* final-label, where the run is one or more of letters, digits, '-' and
\* '.' (so labels before the final one may be empty); every string of the
\* claimed form is accepted, and the strings the claim lists are rejected.
C8_PatternForm ==
    phase = "applied" =>
        /\ out <=> PatternForm(arg)
        /\ ClaimedForm(arg) => out
        /\ (arg = <<>> \/ (\E i \in 1..Len(arg) : arg[i] \in {32, 10})
            \/ (\A i \in 1..Len(arg) : arg[i] # 64)
            \/ arg[1] = 64 \/ arg[Len(arg)] = 64) => ~out

\* "a@..aa" is accepted: the two labels before the final one are empty.
C8_Witness ==
    /\ phase = "applied"
    /\ arg = <<97, 64, 46, 46, 97, 97>>
    /\ out = TRUE

(***************************************************************************)
(* ToBytes run from its first statement to its return with no other call   *)
(* in between: the blocks of the source composed in program order, for a   *)
(* call whose two boundaries are b and rb.                                 *)
(***************************************************************************)
RECURSIVE InlineLoop(_, _, _)
InlineLoop(m, rb, i) ==
    IF i > Len(m.Inline) THEN <<>>
    ELSE InlinePartWrites(rb, RangeAt(m.Inline, i)) \o InlineLoop(m, rb, i + 1)

\* The attachment loop from iteration i on: the writes made, and the error
\* that ended it (NoErr when it ran to its end).
RECURSIVE AttachmentLoop(_, _, _, _)
AttachmentLoop(m, fs, b, i) ==
    IF i > Len(m.Attachment) THEN [writes |-> <<>>, err |-> NoErr]
    ELSE LET file == RangeAt(m.Attachment, i)
             content == AttachmentContent(fs, file)
             here == AttachmentHeaderWrites(b, file) \o content.writes
         IN  IF content.err # NoErr
             THEN [writes |-> here, err |-> content.err]
             ELSE LET rest == AttachmentLoop(m, fs, b, i + 1)
                  IN  [writes |-> here \o rest.writes, err |-> rest.err]

ToBytesAlone(m, fs, b, rb) ==
    IF Preconditions(m) # NoErr THEN FailReturn(<<>>, Preconditions(m))
    ELSE LET opened == Headers(m)
                 \o (IF Wrapped(m) THEN <<MixedDecl(b), FirstDelim(b)>> ELSE <<>>)
             body == IF hasInline(m)
                     THEN <<RelatedDecl(rb), FirstDelim(rb)>> \o BodyPart(m)
                          \o InlineLoop(m, rb, 1) \o <<CloseDelim(rb)>>
                     ELSE BodyPart(m)
             att == AttachmentLoop(m, fs, b, 1)
         IN  IF att.err # NoErr
             THEN FailReturn(opened \o body \o att.writes, att.err)
             ELSE OkReturn(opened \o body \o att.writes
                           \o (IF Wrapped(m) THEN <<CloseDelim(b)>> ELSE <<>>))

\* The call that takes a step: the one whose position or loop count changes.
Steps(c) == pc'[c] # pc[c] \/ idx'[c] # idx[c]

\* What a step of call c leaves alone: the Mail values, the filesystem, and
\* for every other call d its locals, its return value and its buffer.
FrameOf(c) ==
    /\ mail' = mail
    /\ files' = files
    /\ \A d \in Calls \ {c} :
        /\ pc'[d] = pc[d]
        /\ idx'[d] = idx[d]
        /\ msgRef'[d] = msgRef[d]
        /\ boundary'[d] = boundary[d]
        /\ relatedBoundary'[d] = relatedBoundary[d]
        /\ ret'[d] = ret[d]
        /\ fileReads'[d] = fileReads[d]
        /\ bufs'[d] = bufs[d]

\* Two calls that have made their buffers hold different buffers, and a
\* call that returned returned what it returns when run alone.
IndependentResults ==
    /\ \A c, d \in Calls :
           (c # d /\ pc[c] # "start" /\ pc[d] # "start") => msgRef[c] # msgRef[d]
    /\ \A c \in Calls :
           /\ pc[c] # "start" => msgRef[c] = c
           /\ Returned(c) =>
                  ret[c] = ToBytesAlone(mail[c], files, boundary[c], relatedBoundary[c])

\* C9: under every interleaving of two calls, each call writes only to its
\* own buffer, changes no Mail and nothing of the other call, and returns
\* what it returns when run alone.
C9_CallsIndependent ==
    /\ []IndependentResults
    /\ [][\A c \in Calls : Steps(c) => FrameOf(c)]_vars

\* Call 2 returned a message with both containers while call 1, which has
\* written its first inline part, is still inside its inline loop.
C9_Witness ==
    /\ Calls = {1, 2}
    /\ pc[1] = "inline"
    /\ idx[1] = 1
    /\ Len(bufs[msgRef[1]]) > 10
    /\ Returned(2)
    /\ ret[2].err = "open nofile: no such file or directory"
    /\ Len(bufs[msgRef[2]]) > 20

\* C10: in a successful output the body part comes first (after the headers
\* and the container openings); the inline parts follow it in caller order,
\* each under a delimiter of the related boundary; the related closing
\* delimiter comes before the first attachment delimiter; the attachments
\* follow in caller order; the outer closing delimiter is the last write
\* exactly when the message has an attachment or an inline resource.
C10_PartsInSequence ==
    \A c \in Calls :
        Succeeded(c) =>
            LET o == ret[c].buf
                m == mail[c]
                b == boundary[c]
                rb == relatedBoundary[c]
                nI == Len(m.Inline)
                nA == Len(m.Attachment)
                wrapped == nI > 0 \/ nA > 0
                base == 4 + (IF wrapped THEN 2 ELSE 0) + (IF nI > 0 THEN 2 ELSE 0)
                aBase == base + 3 + (IF nI > 0 THEN 6 * nI + 1 ELSE 0)
                sI(j) == base + 3 + 6 * (j - 1) + 1
                sA(k) == aBase + 5 * (k - 1) + 1
            IN  /\ Len(o) = aBase + 5 * nA + (IF wrapped THEN 1 ELSE 0)
                /\ \A i \in 1..base : o[i] \notin {PartDelim(b), PartDelim(rb)}
                /\ o[base + 1] = BodyContentType(m)
                /\ o[base + 2] = "Content-Transfer-Encoding: quoted-printable\r\n\r\n"
                /\ o[base + 3] = QuotedPrintable(m.Body)
                /\ \A j \in 1..nI :
                    /\ o[sI(j)] = "\r\n--" \o rb \o "\r\n"
                    /\ o[sI(j) + 3] = "Content-ID: <" \o m.Inline[j].CID \o ">\r\n"
                    /\ o[sI(j) + 4] = InlineDisposition(m.Inline[j])
                    /\ o[sI(j) + 5] = Concat(writeBytes(m.Inline[j].Body))
                /\ nI > 0 => o[aBase] = "\r\n--" \o rb \o "--\r\n"
                /\ \A k \in 1..nA :
                    /\ o[sA(k)] = "\r\n--" \o b \o "\r\n"
                    /\ o[sA(k) + 1] = PartContentType(m.Attachment[k])
                    /\ o[sA(k) + 3] = AttachmentDisposition(m.Attachment[k])
                /\ (o[Len(o)] = "\r\n--" \o b \o "--\r\n") <=> wrapped

\* A successful output with two inline resources and two attachments.
C10_Witness ==
    \E c \in Calls :
        /\ Succeeded(c)
        /\ Len(mail[c].Inline) = 2
        /\ Len(mail[c].Attachment) = 2
        /\ mail[c].Inline[1].CID = "x"
        /\ mail[c].Attachment[2].ContentType = "text/plain"

(***************************************************************************)
(* The filesystem collaborator.                                            *)
(***************************************************************************)
\* The names of the elements of list that have an empty Body, in order.
EmptyBodyNames(list) ==
    LET q == SelectSeq(list, LAMBDA f : Len(f.Body) = 0)
    IN  [i \in 1..Len(q) |-> q[i].Name]

\* The error os.ReadFile gives for a path that does not exist.
NoSuchFile(name) == "open " \o name \o ": no such file or directory"

\* The attachment loop iterations call c has started.
AttachmentsStarted(c) ==
    IF pc[c] \in {"attach", "read", "done"}
    THEN SubSeq(mail[c].Attachment, 1, idx[c]) ELSE <<>>

\* The attachments whose content call c has dealt with: those started, less
\* the one whose file the call is about to read.
AttachmentsContentDone(c) ==
    IF pc[c] = "read" THEN SubSeq(mail[c].Attachment, 1, idx[c] - 1)
    ELSE AttachmentsStarted(c)

\* C11: the filesystem is read only for attachments with an empty Body, at
\* the path equal to the attachment's Name: the reads of a call are exactly
\* the Names of the empty-bodied attachments it has reached, in order (so no
\* inline resource and no attachment with a Body causes one), and a call
\* waits for a read only at an attachment with an empty Body; an attachment
\* with a Body is encoded from the Body, one without from the file at Name;
\* a failed read ends the call at that attachment with the read's error and
\* no output, and a call fails past its preconditions for no other reason;
\* an inline resource is encoded from its Body even when the Body is empty.
C11_FileReadOnlyForEmptyBody ==
    \A c \in Calls :
        LET m == mail[c]
            o == bufs[msgRef[c]]
            nI == Len(m.Inline)
            started == AttachmentsStarted(c)
            base == 4 + (IF Wrapped(m) THEN 2 ELSE 0) + (IF nI > 0 THEN 2 ELSE 0)
            aBase == base + 3 + (IF nI > 0 THEN 6 * nI + 1 ELSE 0)
            sI(j) == base + 3 + 6 * (j - 1) + 1
            sA(k) == aBase + 5 * (k - 1) + 1
            missing(k) == Len(m.Attachment[k].Body) = 0
                          /\ m.Attachment[k].Name \notin DOMAIN files
        IN  /\ fileReads[c] = EmptyBodyNames(AttachmentsContentDone(c))
            /\ pc[c] = "read" =>
                   /\ Len(started) > 0
                   /\ Len(m.Attachment[Len(started)].Body) = 0
                   /\ Len(o) = sA(Len(started)) + 3
            /\ \A k \in 1..Len(started) :
                   LET file == m.Attachment[k]
                   IN  /\ o[sA(k) + 3] = AttachmentDisposition(file)
                       /\ IF pc[c] = "read" /\ k = Len(started) THEN TRUE
                          ELSE IF missing(k)
                          THEN /\ k = Len(started)
                               /\ Len(o) = sA(k) + 3
                               /\ Returned(c)
                               /\ ret[c].err = NoSuchFile(file.Name)
                               /\ ret[c].nilbuf
                          ELSE o[sA(k) + 4] =
                                   Concat(writeBytes(IF Len(file.Body) > 0
                                                     THEN file.Body
                                                     ELSE files[file.Name]))
            /\ (Returned(c) /\ ret[c].err # NoErr /\ Preconditions(m) = NoErr) =>
                   (Len(started) > 0 /\ missing(Len(started)))
            /\ (pc[c] \in {"attach", "read"} \/ (Returned(c) /\ Preconditions(m) = NoErr)) =>
                   \A j \in 1..nI :
                       o[sI(j) + 5] = Concat(writeBytes(m.Inline[j].Body))

\* A call that wrote an inline resource with an empty Body named a.txt and
\* an attachment with a Body without a read, then read a.txt for the second
\* attachment and encoded its 58 bytes; and the state of a call ended by the
\* failed read of nofile after the read of a.txt.
C11_Witness ==
    \E c \in Calls :
        /\ Returned(c)
        /\ Len(mail[c].Attachment) = 2
        /\ \E j \in 1..Len(mail[c].Inline) :
               mail[c].Inline[j].Name = "a.txt" /\ Len(mail[c].Inline[j].Body) = 0
        /\ Len(files["a.txt"]) = 58
        /\ \/ /\ Succeeded(c)
              /\ Len(mail[c].Attachment[1].Body) > 0
              /\ fileReads[c] = <<"a.txt">>
              /\ Len(bufs[msgRef[c]][Len(bufs[msgRef[c]]) - 1]) > 80
           \/ /\ ret[c].err = NoSuchFile("nofile")
              /\ fileReads[c] = <<"a.txt", "nofile">>

====
